---- MODULE Spec2Model ----
(***************************************************************************)
(* Action reconciliation and viewport synchronisation of the map client:   *)
(* the chat round-trip delivers action batches (ChatPanel.tsx), App.tsx     *)
(* hands them to the map component as the `actions` prop, and the map      *)
(* component (OpenLayersMap) folds each batch into its `pins` state and     *)
(* rebuilds the marker features of the vector source from `pins`.  Next to *)
(* it: the location search and the locate-me button of the map component,  *)
(* the view and its MapState, the marker styles, the chat panel itself and *)
(* the history log of App.                                                 *)
(***************************************************************************)
EXTENDS Integers, Sequences, FiniteSets, TLC

(***************************************************************************)
(* Bounds of the model.                                                    *)
(***************************************************************************)
\* longest action batch built from CoreActions
MaxBatch == 2
\* longest array carried by a list_pins result or a remove_pins ids field
MaxListLen == 2
\* longest pin collection the fold is started from
MaxPins == 2
\* most entries in one geocoding response
MaxEntries == 2
\* most geocoding requests in flight at the same time
MaxInflight == 2
\* most camera movements followed to their end
MaxMoves == 3
\* most chat messages sent in one run
MaxRounds == 2

(***************************************************************************)
(* Constants of the map component.                                         *)
(***************************************************************************)
minPinZoom == 6
maxZoom == 18

\* the cap of the history log: combined.slice(0, 100)
HistoryCap == 100

(***************************************************************************)
(* JavaScript values as they come out of response.json(): every value is   *)
(* a record tagged with its kind; an object carries the properties the     *)
(* code reads, an absent property being Undef.                             *)
(***************************************************************************)
Undef == [k |-> "undefined"]
Null == [k |-> "null"]
Str(s) == [k |-> "string", s |-> s]
Num(n) == [k |-> "number", n |-> n]
Bool(b) == [k |-> "boolean", b |-> b]
Arr(a) == [k |-> "array", a |-> a]
Obj(o) == [k |-> "object", o |-> o]

NoProps ==
  [id |-> Undef, title |-> Undef, notes |-> Undef, lat |-> Undef, lon |-> Undef,
   removed_all |-> Undef, ids |-> Undef, display_name |-> Undef,
   removed |-> Undef, count |-> Undef]

\* typeof value
TypeOf(v) ==
  IF v.k \in {"null", "object", "array"} THEN "object" ELSE v.k

\* !value : null, undefined, 0, "" and false are falsy
Falsy(v) ==
  \/ v.k \in {"null", "undefined"}
  \/ v.k = "number" /\ v.n = 0
  \/ v.k = "string" /\ v.s = ""
  \/ v.k = "boolean" /\ v.b = FALSE

\* value.prop raises a TypeError exactly when value is null or undefined
ReadThrows(v) == v.k \in {"null", "undefined"}

\* value.prop for a value that is not null or undefined
Prop(v, name) == IF v.k = "object" THEN v.o[name] ELSE Undef

\* variant: notes is copied as it comes, with no coercion to null
normalizePinKeepsNotes(value) ==
  IF Falsy(value) \/ TypeOf(value) # "object"
  THEN Null
  ELSE LET id == Prop(value, "id")
           title == Prop(value, "title")
           lat == Prop(value, "lat")
           lon == Prop(value, "lon")
       IN IF \/ TypeOf(id) # "string"
             \/ TypeOf(title) # "string"
             \/ TypeOf(lat) # "number"
             \/ TypeOf(lon) # "number"
          THEN Null
          ELSE [id |-> id.s, title |-> title.s, notes |-> Prop(value, "notes"),
                lat |-> lat.n, lon |-> lon.n]

(***************************************************************************)
(* normalizePin: the shape check of one untrusted pin payload.  The value  *)
(* returned is Null or a PinData record {id, title, notes, lat, lon}.      *)
(***************************************************************************)
normalizePin(value) ==
  IF Falsy(value) \/ TypeOf(value) # "object"
  THEN Null
  ELSE LET id == Prop(value, "id")
           title == Prop(value, "title")
           lat == Prop(value, "lat")
           lon == Prop(value, "lon")
       IN IF \/ TypeOf(id) # "string"
             \/ TypeOf(title) # "string"
             \/ TypeOf(lat) # "number"
             \/ TypeOf(lon) # "number"
          THEN Null
          ELSE [id |-> id.s, title |-> title.s,
                notes |-> IF TypeOf(Prop(value, "notes")) = "string"
                          THEN Prop(value, "notes") ELSE Null,
                lat |-> lat.n, lon |-> lon.n]

(***************************************************************************)
(* The fold of one batch (the setPins updater).  The accumulator carries   *)
(* nextPins, the camera commands issued so far through view.animate, and   *)
(* ok = FALSE once an action has raised a TypeError, which ends forEach.   *)
(***************************************************************************)
AnimateTo(lon, lat, zoom) == [cmd |-> "animate", lon |-> lon, lat |-> lat, zoom |-> zoom]

Raise(acc) == [acc EXCEPT !.ok = FALSE]

\* action.type === "geocode"
ApplyGeocode(acc, result, hasView) ==
  IF ReadThrows(result)
  THEN Raise(acc)
  ELSE LET lat == Prop(result, "lat")
           lon == Prop(result, "lon")
       IN IF hasView /\ TypeOf(lat) = "number" /\ TypeOf(lon) = "number"
          THEN [acc EXCEPT !.cmds = Append(@, AnimateTo(lon.n, lat.n, 12))]
          ELSE acc

\* result.map(normalizePin).filter(Boolean)
NormalizeAll(items) ==
  LET mapped == [i \in 1..Len(items) |-> normalizePin(items[i])]
      IsPin(p) == p # Null
  IN SelectSeq(mapped, IsPin)

\* variant: the listed pins are merged into the collection, not put in its place
ApplyListPinsMerges(acc, result) ==
  IF result.k = "array"
  THEN [acc EXCEPT !.pins = @ \o NormalizeAll(result.a)]
  ELSE acc

\* action.type === "list_pins" && Array.isArray(action.result)
ApplyListPins(acc, result) ==
  IF result.k = "array"
  THEN [acc EXCEPT !.pins = NormalizeAll(result.a)]
  ELSE acc

\* variant: the pins already held are all kept behind the new pin
PrependPinKeepsOld(pin, nextPins) == <<pin>> \o nextPins

\* variant: only the first pin of the same id is taken out
PrependPinDropsOneOld(pin, nextPins) ==
  LET hits == {i \in 1..Len(nextPins) : nextPins[i].id = pin.id}
  IN IF hits = {}
     THEN <<pin>> \o nextPins
     ELSE LET first == CHOOSE i \in hits : \A j \in hits : i <= j
          IN <<pin>> \o SubSeq(nextPins, 1, first - 1)
                   \o SubSeq(nextPins, first + 1, Len(nextPins))

\* variant: the pin is pushed at the end
AppendPin(pin, nextPins) ==
  LET Other(existing) == existing.id # pin.id
  IN SelectSeq(nextPins, Other) \o <<pin>>

\* [pin, ...nextPins.filter((existing) => existing.id !== pin.id)]
PrependPin(pin, nextPins) ==
  LET Other(existing) == existing.id # pin.id
  IN <<pin>> \o SelectSeq(nextPins, Other)

\* variant: the pin of the same id is dropped before the payload is validated
ApplyCreatePinDropsFirst(acc, result) ==
  LET pin == normalizePin(result)
      id == IF ReadThrows(result) THEN Undef ELSE Prop(result, "id")
      Other(existing) == existing.id # id.s
  IN IF pin # Null
     THEN [acc EXCEPT !.pins = PrependPin(pin, @)]
     ELSE IF TypeOf(id) = "string"
          THEN [acc EXCEPT !.pins = SelectSeq(@, Other)]
          ELSE acc

\* action.type === "create_pin"
ApplyCreatePin(acc, result) ==
  LET pin == normalizePin(result)
  IN IF pin # Null
     THEN [acc EXCEPT !.pins = PrependPin(pin, @)]
     ELSE acc

\* variant: only the first pin with the id is taken out (findIndex + splice)
ApplyRemovePinFirstOnly(acc, result) ==
  IF ReadThrows(result)
  THEN Raise(acc)
  ELSE LET id == Prop(result, "id")
           hits == IF TypeOf(id) = "string"
                   THEN {i \in 1..Len(acc.pins) : acc.pins[i].id = id.s}
                   ELSE {}
       IN IF hits = {}
          THEN acc
          ELSE LET first == CHOOSE i \in hits : \A j \in hits : i <= j
               IN [acc EXCEPT !.pins =
                     [k \in 1..(Len(@) - 1) |->
                        IF k < first THEN @[k] ELSE @[k + 1]]]

\* action.type === "remove_pin"
ApplyRemovePin(acc, result) ==
  IF ReadThrows(result)
  THEN Raise(acc)
  ELSE LET id == Prop(result, "id")
           Other(existing) == existing.id # id.s
       IN IF TypeOf(id) = "string"
          THEN [acc EXCEPT !.pins = SelectSeq(@, Other)]
          ELSE acc

\* new Set(ids.filter((id) => typeof id === "string"))
StringMembers(ids) ==
  {ids[i].s : i \in {j \in 1..Len(ids) : TypeOf(ids[j]) = "string"}}

\* variant: removed_all is tested for truthiness, not for === true
ApplyRemovePinsTruthyAll(acc, result) ==
  IF ReadThrows(result)
  THEN Raise(acc)
  ELSE IF ~Falsy(Prop(result, "removed_all"))
       THEN [acc EXCEPT !.pins = <<>>]
       ELSE LET ids == Prop(result, "ids")
            IN IF ids.k = "array"
               THEN LET idsToRemove == StringMembers(ids.a)
                        Kept(existing) == existing.id \notin idsToRemove
                    IN IF Cardinality(idsToRemove) > 0
                       THEN [acc EXCEPT !.pins = SelectSeq(@, Kept)]
                       ELSE acc
               ELSE acc

\* action.type === "remove_pins"
ApplyRemovePins(acc, result) ==
  IF ReadThrows(result)
  THEN Raise(acc)
  ELSE IF Prop(result, "removed_all") = Bool(TRUE)
       THEN [acc EXCEPT !.pins = <<>>]
       ELSE LET ids == Prop(result, "ids")
            IN IF ids.k = "array"
               THEN LET idsToRemove == StringMembers(ids.a)
                        Kept(existing) == existing.id \notin idsToRemove
                    IN IF Cardinality(idsToRemove) > 0
                       THEN [acc EXCEPT !.pins = SelectSeq(@, Kept)]
                       ELSE acc
               ELSE acc

\* variant: an action of a type the callback does not know raises
ApplyActionRejectsUnknown(acc, action, hasView) ==
  CASE action.type = "geocode" -> ApplyGeocode(acc, action.result, hasView)
    [] action.type = "list_pins" -> ApplyListPins(acc, action.result)
    [] action.type = "create_pin" -> ApplyCreatePin(acc, action.result)
    [] action.type = "remove_pin" -> ApplyRemovePin(acc, action.result)
    [] action.type = "remove_pins" -> ApplyRemovePins(acc, action.result)
    [] OTHER -> Raise(acc)

\* the body of the forEach callback for one action
ApplyAction(acc, action, hasView) ==
  CASE action.type = "geocode" -> ApplyGeocode(acc, action.result, hasView)
    [] action.type = "list_pins" -> ApplyListPins(acc, action.result)
    [] action.type = "create_pin" -> ApplyCreatePin(acc, action.result)
    [] action.type = "remove_pin" -> ApplyRemovePin(acc, action.result)
    [] action.type = "remove_pins" -> ApplyRemovePins(acc, action.result)
    [] OTHER -> acc

\* variant: the `return` of the removed_all branch leaves the whole loop
RECURSIVE ForEachReturnEndsLoop(_, _, _, _)
ForEachReturnEndsLoop(acc, batch, i, hasView) ==
  IF i > Len(batch) \/ ~acc.ok
  THEN acc
  ELSE IF /\ batch[i].type = "remove_pins"
          /\ ~ReadThrows(batch[i].result)
          /\ Prop(batch[i].result, "removed_all") = Bool(TRUE)
       THEN ApplyAction(acc, batch[i], hasView)
       ELSE ForEachReturnEndsLoop(ApplyAction(acc, batch[i], hasView), batch, i + 1, hasView)

\* actions.forEach from index i on; a raised error leaves the loop
RECURSIVE ForEachFrom(_, _, _, _)
ForEachFrom(acc, batch, i, hasView) ==
  IF i > Len(batch) \/ ~acc.ok
  THEN acc
  ELSE ForEachFrom(ApplyAction(acc, batch[i], hasView), batch, i + 1, hasView)

\* variant: the updater catches the error and returns nextPins as it stands
ReconcileSwallowsError(prevPins, batch, hasView) ==
  [ForEachFrom([ok |-> TRUE, pins |-> prevPins, cmds |-> <<>>], batch, 1, hasView)
     EXCEPT !.ok = TRUE]

\* the updater passed to setPins: nextPins = [...prevPins]; forEach; return
Reconcile(prevPins, batch, hasView) ==
  ForEachFrom([ok |-> TRUE, pins |-> prevPins, cmds |-> <<>>], batch, 1, hasView)

(***************************************************************************)
(* Inputs: the payloads a chat response may carry.                         *)
(***************************************************************************)
Action(type, result) == [type |-> type, result |-> result]

PinPayload(id, title, notes) ==
  Obj([NoProps EXCEPT !.id = id, !.title = title, !.notes = notes,
                      !.lat = Num(1), !.lon = Num(2)])

\* every sequence over S of length at most n
SeqsUpTo(S, n) == UNION {[1..m -> S] : m \in 0..n}

\* the actions the chat round-trip of the model answers with
ChatActions ==
  { Action("create_pin", PinPayload(Str("a"), Str("t"), Undef)),
    Action("create_pin", PinPayload(Str("b"), Str("u"), Str("n"))),
    Action("list_pins", Arr(<<PinPayload(Str("a"), Str("t"), Undef),
                              PinPayload(Str("a"), Str("u"), Undef)>>)),
    Action("remove_pin", Obj([NoProps EXCEPT !.id = Str("a")])),
    Action("remove_pin", Null),
    Action("remove_pins", Obj([NoProps EXCEPT !.removed_all = Bool(TRUE)])),
    Action("geocode", Obj([NoProps EXCEPT !.lat = Num(1), !.lon = Num(2)])) }

\* the actions the longer batches handed to the fold are built from
CoreActions ==
  ChatActions \cup
  { Action("create_pin", PinPayload(Str("a"), Str("u"), Undef)),
    Action("create_pin", Obj([NoProps EXCEPT !.id = Str("a"), !.title = Str("u"),
                                             !.lon = Num(2)])),
    Action("remove_pins", Obj([NoProps EXCEPT !.removed_all = Bool(TRUE),
                                              !.ids = Arr(<<Str("b")>>)])),
    Action("remove_pins", Obj([NoProps EXCEPT !.ids = Arr(<<Str("b")>>)])),
    Action("future_action", Obj(NoProps)) }

\* results that are no object at all
NonObjects == {Null, Undef, Num(5), Str("a")}

ListItems ==
  { PinPayload(Str("a"), Str("t"), Undef),
    PinPayload(Str("b"), Str("u"), Str("n")),
    Obj([NoProps EXCEPT !.id = Str("b"), !.title = Str("t"), !.lat = Num(1)]),
    Null }

ListResults == {Arr(a) : a \in SeqsUpTo(ListItems, MaxListLen)} \cup NonObjects

CreateResults ==
  { Obj([NoProps EXCEPT !.id = id, !.title = title, !.notes = notes,
                        !.lat = lat, !.lon = Num(2)]) :
      id \in {Str("a"), Num(1), Undef}, title \in {Str("u"), Null},
      notes \in {Undef, Str("n"), Num(3)}, lat \in {Num(1), Str("1"), Undef} }
  \cup NonObjects \cup {Arr(<<>>)}

RemovePinResults ==
  { Obj([NoProps EXCEPT !.id = id]) : id \in {Str("a"), Str("b"), Str("z"), Num(5), Undef, Null} }
  \cup NonObjects

IdsValues ==
  {Arr(a) : a \in SeqsUpTo({Str("a"), Str("b"), Num(5)}, MaxListLen)}
  \cup {Undef, Null, Str("a")}

RemovePinsResults ==
  { Obj([NoProps EXCEPT !.removed_all = all, !.ids = ids]) :
      all \in {Bool(TRUE), Bool(FALSE), Str("true"), Undef}, ids \in IdsValues }
  \cup NonObjects

GeocodeResults ==
  { Obj([NoProps EXCEPT !.lat = lat, !.lon = lon]) :
      lat \in {Num(1), Str("1"), Undef}, lon \in {Num(2), Null} }
  \cup NonObjects

\* the actions delivered alone, with every payload shape the code tells apart
SingleActions ==
  {Action("list_pins", r) : r \in ListResults}
  \cup {Action("create_pin", r) : r \in CreateResults}
  \cup {Action("remove_pin", r) : r \in RemovePinResults}
  \cup {Action("remove_pins", r) : r \in RemovePinsResults}
  \cup {Action("geocode", r) : r \in GeocodeResults}
  \cup {Action("future_action", r) : r \in NonObjects}

\* data.actions of one chat response
Batches == SeqsUpTo(ChatActions, MaxBatch)

\* the batches handed to the fold on its own
FoldBatches ==
  SeqsUpTo(CoreActions, MaxBatch) \cup {<<a>> : a \in SingleActions}

\* the pins a collection is made of, and the collections the fold starts from:
\* every sequence of pins is the result of one list_pins action
PinValues ==
  { normalizePin(PinPayload(Str("a"), Str("t"), Undef)),
    normalizePin(PinPayload(Str("a"), Str("u"), Undef)),
    normalizePin(PinPayload(Str("b"), Str("t"), Undef)),
    normalizePin(PinPayload(Str("b"), Str("u"), Str("n"))) }

PinLists == SeqsUpTo(PinValues, MaxPins)

(***************************************************************************)
(* The location search (performSearch, handleResultSelect).  Texts are     *)
(* sequences of characters, so that trimming, encoding and the parsing of  *)
(* numerals are computed character by character.                           *)
(***************************************************************************)
\* String.prototype.trim
RECURSIVE TrimStart(_)
TrimStart(text) ==
  IF text # <<>> /\ Head(text) = " " THEN TrimStart(Tail(text)) ELSE text

RECURSIVE TrimEnd(_)
TrimEnd(text) ==
  IF text # <<>> /\ text[Len(text)] = " "
  THEN TrimEnd(SubSeq(text, 1, Len(text) - 1))
  ELSE text

Trim(text) == TrimEnd(TrimStart(text))

\* encodeURIComponent: a space becomes %20, letters and digits stay
RECURSIVE encodeURIComponent(_)
encodeURIComponent(text) ==
  IF text = <<>>
  THEN <<>>
  ELSE (IF Head(text) = " " THEN <<"%", "2", "0">> ELSE <<Head(text)>>)
       \o encodeURIComponent(Tail(text))

\* variant: the text is tested as it was typed, without trim
IsBlankUntrimmed(searchText) == searchText = <<>>

\* !searchText.trim()
IsBlank(searchText) == Trim(searchText) = <<>>

\* the URL query of the request: q=${encodeURIComponent(searchText.trim())}
RequestFor(searchText) == [q |-> encodeURIComponent(Trim(searchText))]

\* Number(string) for integer numerals: the empty string is 0, an optional
\* sign and decimal digits give their value, anything else is NaN
NaN == [k |-> "number", nan |-> TRUE]

DecimalDigits == <<"0", "1", "2", "3", "4", "5", "6", "7", "8", "9">>

IsDigit(c) == \E i \in 1..Len(DecimalDigits) : DecimalDigits[i] = c

DigitValue(c) == (CHOOSE i \in 1..Len(DecimalDigits) : DecimalDigits[i] = c) - 1

RECURSIVE DecimalValue(_)
DecimalValue(digits) ==
  IF digits = <<>>
  THEN 0
  ELSE 10 * DecimalValue(SubSeq(digits, 1, Len(digits) - 1))
       + DigitValue(digits[Len(digits)])

Number(text) ==
  LET t == Trim(text)
      signed == t # <<>> /\ Head(t) \in {"-", "+"}
      digits == IF signed THEN Tail(t) ELSE t
  IN IF t = <<>>
     THEN Num(0)
     ELSE IF digits # <<>> /\ \A i \in 1..Len(digits) : IsDigit(digits[i])
          THEN IF Head(t) = "-"
               THEN Num(0 - DecimalValue(digits))
               ELSE Num(DecimalValue(digits))
          ELSE NaN

\* variant: the bounding box is copied in the order the service sends it
ParseEntryKeepsOrder(entry) ==
  [label |-> entry.display_name,
   latitude |-> Number(entry.lat),
   longitude |-> Number(entry.lon),
   boundingBox |->
     IF ~Falsy(entry.boundingbox)
     THEN Arr(<<Number(entry.boundingbox.a[1]), Number(entry.boundingbox.a[2]),
                Number(entry.boundingbox.a[3]), Number(entry.boundingbox.a[4])>>)
     ELSE Undef]

\* the callback of data.map: one raw entry to one GeocodeResult (the array
\* indices 2, 0, 3, 1 of the code are 3, 1, 4, 2 here)
ParseEntry(entry) ==
  [label |-> entry.display_name,
   latitude |-> Number(entry.lat),
   longitude |-> Number(entry.lon),
   boundingBox |->
     IF ~Falsy(entry.boundingbox)
     THEN Arr(<<Number(entry.boundingbox.a[3]), Number(entry.boundingbox.a[1]),
                Number(entry.boundingbox.a[4]), Number(entry.boundingbox.a[2])>>)
     ELSE Undef]

\* data.map((entry) => ...)
RECURSIVE ParseResults(_)
ParseResults(data) ==
  IF data = <<>>
  THEN <<>>
  ELSE <<ParseEntry(Head(data))>> \o ParseResults(Tail(data))

EnterLocationMessage == Str("Enter a location to search.")
NoResultsMessage == Str("No results found. Try another search.")
RequestFailedMessage == Str("Geocoding request failed.")
FallbackMessage == Str("Something went wrong while searching.")

\* the ways the try block fails: a response that is not ok, a rejection with
\* an Error (the transport failure of fetch), a rejection with another value
NotOk == [kind |-> "not ok"]
Rejected(message) == [kind |-> "error", message |-> message]
RejectedWithValue == [kind |-> "value"]

Failures == {NotOk, Rejected("Failed to fetch"), RejectedWithValue}

\* the catch block: error instanceof Error ? error.message : fallback
FailureMessage(failure) ==
  CASE failure.kind = "not ok" -> RequestFailedMessage
    [] failure.kind = "error" -> Str(failure.message)
    [] OTHER -> FallbackMessage

\* variant: an empty result list is reported with the message of a failure
MessageAfterOkGeneric(parsedResults, current) ==
  IF Len(parsedResults) = 0 THEN RequestFailedMessage ELSE current

\* the message after setResults(parsedResults): set only for an empty list
MessageAfterOk(parsedResults, current) ==
  IF Len(parsedResults) = 0 THEN NoResultsMessage ELSE current

\* view.fit(transformExtent(boundingBox), {maxZoom, ...})
FitTo(boundingBox) ==
  [cmd |-> "fit", extent |-> boundingBox, maxZoom |-> maxZoom]

\* variant: the animation to the point is issued after the fit as well
SelectCommandsBoth(result) ==
  IF ~Falsy(result.boundingBox)
  THEN <<FitTo(result.boundingBox.a),
         AnimateTo(result.longitude, result.latitude, 12)>>
  ELSE <<AnimateTo(result.longitude, result.latitude, 12)>>

\* the camera commands of handleResultSelect
SelectCommands(result) ==
  IF ~Falsy(result.boundingBox)
  THEN <<FitTo(result.boundingBox.a)>>
  ELSE <<AnimateTo(result.longitude, result.latitude, 12)>>

\* the texts typed into the search box: empty, blanks only, a word, a word
\* between blanks, two words
Texts ==
  { <<>>, <<" ">>, <<" ", " ">>, <<"p">>, <<" ", "p", " ">>, <<"p", " ", "p">> }

RawEntry(name, lat, lon, boundingbox) ==
  [display_name |-> name, lat |-> lat, lon |-> lon, boundingbox |-> boundingbox]

\* entries of the geocoding service: boundingbox is [minLat, maxLat, minLon,
\* maxLon] as strings, or absent
RawEntries ==
  { RawEntry(<<"p">>, <<"-", "1", "2">>, <<"-", "7", "7">>,
             Arr(<< <<"-", "1", "3">>, <<"-", "1", "1">>,
                    <<"-", "7", "8">>, <<"-", "7", "6">> >>)),
    RawEntry(<<"p", " ", "p">>, <<"5", "9">>, <<"1", "0">>, Undef) }

\* the bodies of successful responses: up to MaxEntries entries, a place
\* listed once
Responses ==
  { data \in SeqsUpTo(RawEntries, MaxEntries) :
      \A i, j \in 1..Len(data) : i # j => data[i] # data[j] }

\* parsedResults for each body
ParsedResponse == [data \in Responses |-> ParseResults(data)]

(***************************************************************************)
(* The chat panel (ChatPanel.handleSubmit) and the history log of App.     *)
(* A transcript message is [role, text], a history entry [kind, detail];   *)
(* the ids and timestamps taken from the clock are left out.               *)
(***************************************************************************)
\* the MapState handed to onMapStateChange: toLonLat(center), zoom, and the
\* extent of the view when the map has a size
MapStateOf(center, zoom, sized) ==
  [center |-> center, zoom |-> zoom,
   bbox |-> IF sized THEN [around |-> center, zoom |-> zoom] ELSE Null]

WelcomeMessage == [role |-> "assistant", text |-> <<"Welcome! I'm Ursa">>]

UserMessage(trimmed) == [role |-> "user", text |-> trimmed]

AssistantMessage(text) == [role |-> "assistant", text |-> text]

\* `Sorry, I couldn't reach the assistant. ${message}`
ErrorMessage(message) ==
  [role |-> "assistant",
   text |-> <<"Sorry, I couldn't reach the assistant. ", message.s>>]

ChatFailedMessage == Str("Chat request failed.")
ChatFallbackMessage == Str("Something went wrong while chatting.")
\* the message of the TypeError raised by a read on null or undefined
TypeErrorMessage == Str("Cannot read properties")

\* the catch block: error instanceof Error ? error.message : fallback
ChatFailureMessage(failure) ==
  CASE failure.kind = "not ok" -> ChatFailedMessage
    [] failure.kind = "error" -> Str(failure.message)
    [] OTHER -> ChatFallbackMessage

\* variant: a draft of blanks only is sent
SubmitAcceptedUntrimmed(text, loading) == text # <<>> /\ ~loading

\* if (!trimmed || isLoading) return;
SubmitAccepted(text, loading) == Trim(text) # <<>> /\ ~loading

\* mapState ?? { center: [0, 0], zoom: 2, bbox: null }
fallbackMapState(state) ==
  IF state = Null THEN MapStateOf(<<0, 0>>, 2, FALSE) ELSE state

\* the body of POST /api/chat
ChatRequest(trimmed, state, conversation) ==
  [message |-> trimmed, map_state |-> fallbackMapState(state),
   conversation_id |-> conversation]

\* number.toFixed(4)
ToFixed4(v) == [k |-> "string", fixed |-> v.n, digits |-> 4]

\* value ?? fallback
Nullish(v, fallback) == IF v.k \in {"null", "undefined"} THEN fallback ELSE v

\* formatActionDetail raises a TypeError: a read on a null or undefined
\* result, toFixed on what is no number, join on what is no array
FormatThrows(action) ==
  CASE action.type \in {"geocode", "create_pin"} ->
         \/ ReadThrows(action.result)
         \/ Prop(action.result, "lat").k # "number"
         \/ Prop(action.result, "lon").k # "number"
    [] action.type = "remove_pin" -> ReadThrows(action.result)
    [] action.type = "remove_pins" ->
         \/ ReadThrows(action.result)
         \/ /\ Falsy(Prop(action.result, "removed_all"))
            /\ Prop(action.result, "ids").k \notin {"null", "undefined", "array"}
    [] OTHER -> FALSE

\* formatActionDetail for an action it does not raise on: the pieces of the
\* template, in order
formatActionDetail(action) ==
  LET result == action.result
      plural(count) == IF count = Num(1) THEN Str("") ELSE Str("s")
  IN CASE action.type = "geocode" ->
            <<Nullish(Prop(result, "display_name"), Str("Coordinates resolved")),
              ToFixed4(Prop(result, "lat")), ToFixed4(Prop(result, "lon"))>>
       [] action.type = "list_pins" ->
            LET count == IF result.k = "array" THEN Num(Len(result.a)) ELSE Num(0)
            IN <<Str("Listed"), count, plural(count)>>
       [] action.type = "create_pin" ->
            <<Str("Pinned"), Prop(result, "title"),
              ToFixed4(Prop(result, "lat")), ToFixed4(Prop(result, "lon"))>>
       [] action.type = "remove_pin" ->
            <<IF Falsy(Prop(result, "removed")) THEN Str("Attempted removal")
                                                ELSE Str("Removed"),
              Nullish(Prop(result, "id"), Str("unknown"))>>
       [] action.type = "remove_pins" ->
            IF ~Falsy(Prop(result, "removed_all"))
            THEN <<Str("Removed all pins"), Prop(result, "count")>>
            ELSE <<Str("Removed"), Prop(result, "count"),
                   plural(Prop(result, "count")),
                   Nullish(Prop(result, "ids"), Str("unspecified"))>>
       [] OTHER -> <<Str("Completed an action.")>>

\* handleHistoryRequest: the entry of one user request
RequestEntry(message) == [kind |-> "request", detail |-> [text |-> message]]

\* handleHistoryActions: nextActions.map(...), one entry for each action
ActionEntries(nextActions) ==
  [i \in 1..Len(nextActions) |->
     [kind |-> "action",
      detail |-> [parts |-> formatActionDetail(nextActions[i])]]]

\* variant: the entries over the cap are cut from the front
appendHistoryEntriesKeepsLast(entries, prev) ==
  IF Len(entries) = 0
  THEN prev
  ELSE LET combined == entries \o prev
       IN IF Len(combined) <= HistoryCap
          THEN combined
          ELSE SubSeq(combined, Len(combined) - HistoryCap + 1, Len(combined))

\* appendHistoryEntries: [...entries, ...prev].slice(0, 100)
appendHistoryEntries(entries, prev) ==
  IF Len(entries) = 0
  THEN prev
  ELSE LET combined == entries \o prev
       IN SubSeq(combined, 1, IF Len(combined) < HistoryCap
                               THEN Len(combined) ELSE HistoryCap)

\* the log the mount effect reads from localStorage "ursa-history": what an
\* earlier session saved, the i-th entry being the i-th latest of that session
StoredHistory(n) == [i \in 1..n |-> RequestEntry(<<ToString(i)>>)]

StoredHistories ==
  {StoredHistory(0), StoredHistory(HistoryCap - 1), StoredHistory(HistoryCap)}

UnsupportedMessage == Str("Geolocation is not supported in this browser.")
UnableMessage == Str("Unable to access your location.")

\* the positions the device reports: (lon, lat)
Positions == { <<10, 59>> }

\* what the user types into the chat input
Drafts == { <<>>, <<" ">>, <<" ", "p">> }

\* the bodies of successful chat responses
ReplyBatches ==
  { <<>>,
    <<Action("create_pin", PinPayload(Str("a"), Str("t"), Undef)),
      Action("geocode", Obj([NoProps EXCEPT !.lat = Num(1), !.lon = Num(2)]))>>,
    <<Action("create_pin", Obj([NoProps EXCEPT !.id = Str("a"),
                                               !.title = Str("u")]))>>,
    <<Action("remove_pin", Null)>> }

Replies ==
  { [assistant_text |-> <<"r">>, actions |-> batch, conversation_id |-> Str("c")] :
      batch \in ReplyBatches }

(***************************************************************************)
(* State.                                                                  *)
(*   chatLoading    ChatPanel's isLoading                                  *)
(*   draft, messages, conversationId, chatError   ChatPanel's draft,       *)
(*                  messages, conversationId and errorMessage state        *)
(*   chatInflight   the chat requests awaiting their response              *)
(*   chatLast       history: the latest step of the chat panel or of the   *)
(*                  history panel                                          *)
(*   historyEntries App's historyEntries state                             *)
(*   isLocating, locationError   state of the locate-me button             *)
(*   geolocation    navigator.geolocation is there                         *)
(*   lookups        the getCurrentPosition calls awaiting their callback   *)
(*   geoLast        history: the latest step of the locate-me button       *)
(*   actions        App's `actions` state, the prop of the map component   *)
(*   actionsEffect  the effect on [actions] is scheduled and has not run   *)
(*   pins           the map component's `pins` state                       *)
(*   pinsEffect     the effect on [pins] is scheduled and has not run      *)
(*   features       the features held by the pin layer's vector source     *)
(*   animations     the camera commands (view.animate, view.fit) of the    *)
(*                  latest handler that gave the view any                  *)
(*   mapRef         mapRef.current holds a map (and so a view)             *)
(*   crashed        the setPins updater raised: the render failed          *)
(*   prevPins       history: `pins` when the latest batch was delivered    *)
(*   folded         history: the fold of every batch delivered so far      *)
(*   normArg, normRet   argument and return value of one normalizePin call *)
(*   query, results, isLoading, errorMessage   state of the search box     *)
(*   inflight       the geocoding requests awaiting their response, in the *)
(*                  order they were issued                                 *)
(*   overtaken      history: for each request in flight, whether a request *)
(*                  issued after it has been answered already              *)
(*   searchLast     history: the latest step of the search box             *)
(*   listener       an onMapStateChange prop is given                      *)
(*   viewCenter, viewZoom   centre (lon, lat) and zoom of the view         *)
(*   hasSize        map.getSize() is defined                               *)
(*   moving         the camera movement in progress: "none", "user" (a     *)
(*                  gesture) or "commanded" (view.animate / view.fit)       *)
(*   mapState       the latest MapState handed to onMapStateChange         *)
(*   emitted        history: number of calls of onMapStateChange           *)
(*   settled        history: number of moveend events                      *)
(*   styleCache     the entries (cacheKey, style instance) of styleCache   *)
(*   stylesBuilt    history: number of Style instances constructed         *)
(*   styleArg, styleRet   zoom and return value of the latest style call   *)
(***************************************************************************)
VARIABLES chatLoading, draft, messages, conversationId, chatError,
          chatInflight, chatLast, historyEntries, isLocating, locationError,
          geolocation, lookups, geoLast, actions, actionsEffect, pins, pinsEffect, features,
          animations, mapRef, crashed, prevPins, folded, normArg, normRet,
          query, results, isLoading, errorMessage, inflight, overtaken,
          searchLast,
          listener, viewCenter, viewZoom, hasSize, moving, mapState, emitted,
          settled, styleCache, stylesBuilt, styleArg, styleRet

vars == <<chatLoading, draft, messages, conversationId, chatError,
          chatInflight, chatLast, historyEntries, isLocating, locationError,
          geolocation, lookups, geoLast, actions, actionsEffect, pins, pinsEffect, features,
          animations, mapRef, crashed, prevPins, folded, normArg, normRet,
          query, results, isLoading, errorMessage, inflight, overtaken,
          searchLast,
          listener, viewCenter, viewZoom, hasSize, moving, mapState, emitted,
          settled, styleCache, stylesBuilt, styleArg, styleRet>>

chatVars == <<chatLoading, draft, messages, conversationId, chatError,
              chatInflight, chatLast, historyEntries>>
geoVars == <<isLocating, locationError, geolocation, lookups, geoLast>>
mapVars == <<pins, pinsEffect, features, animations, mapRef, crashed>>
normVars == <<normArg, normRet>>
searchVars == <<query, results, isLoading, errorMessage, inflight, overtaken,
                searchLast>>
viewVars == <<listener, viewCenter, viewZoom, hasSize, moving, mapState,
              emitted, settled>>
styleVars == <<styleCache, stylesBuilt, styleArg, styleRet>>
foldVars == <<actions, actionsEffect, prevPins, folded>>

\* the chat panel and the history log after construction
ChatIdle ==
  /\ draft = <<>>
  /\ messages = <<WelcomeMessage>>
  /\ conversationId = Null
  /\ chatError = Null
  /\ chatInflight = <<>>
  /\ chatLast = [step |-> "none"]
  /\ historyEntries = <<>>

\* the locate-me button after construction, in a browser with geolocation
GeoIdle ==
  /\ isLocating = FALSE
  /\ locationError = Null
  /\ geolocation = TRUE
  /\ lookups = 0
  /\ geoLast = [step |-> "none"]

\* the search box after construction: useState("") / [] / false / null
SearchIdle ==
  /\ query = <<>>
  /\ results = <<>>
  /\ isLoading = FALSE
  /\ errorMessage = Null
  /\ inflight = <<>>
  /\ overtaken = <<>>
  /\ searchLast = [step |-> "none"]

\* the view after construction in App: new View({center: [0, 0], zoom: 2}),
\* the listener setMapState registered and pushMapState() called once
ViewIdle ==
  /\ listener = TRUE
  /\ viewCenter = <<0, 0>>
  /\ viewZoom = 2
  /\ hasSize = TRUE
  /\ moving = "none"
  /\ mapState = MapStateOf(<<0, 0>>, 2, TRUE)
  /\ emitted = 1
  /\ settled = 0

\* the style cache after construction: new Map(), no style resolved yet
StyleIdle ==
  /\ styleCache = {}
  /\ stylesBuilt = 0
  /\ styleArg = Undef
  /\ styleRet = Undef

\* new Feature({geometry: new Point(fromLonLat([lon, lat])), title, notes}); setId(pin.id)
ToFeature(pin) ==
  [id |-> pin.id, title |-> pin.title, notes |-> pin.notes,
   lon |-> pin.lon, lat |-> pin.lat]

\* source.clear(); source.addFeatures(pins.map(...))
RebuildFeatures(pinList) == [i \in 1..Len(pinList) |-> ToFeature(pinList[i])]

\* React runs the scheduled effects of a commit before it handles the next event
Quiescent == ~actionsEffect /\ ~pinsEffect

Init ==
  /\ chatLoading = FALSE
  /\ actions = <<>>
  /\ actionsEffect = FALSE
  /\ pins = <<>>
  /\ pinsEffect = FALSE
  /\ features = <<>>
  /\ animations = <<>>
  /\ mapRef = TRUE
  /\ crashed = FALSE
  /\ prevPins = <<>>
  /\ folded = <<>>
  /\ normArg = Undef
  /\ normRet = Undef
  /\ SearchIdle
  /\ ViewIdle
  /\ StyleIdle
  /\ ChatIdle
  /\ GeoIdle

\* the next value of chatLast
ChatStep(name) == [step |-> name]

\* the messages the user has sent so far
Rounds == Cardinality({i \in 1..Len(messages) : messages[i].role = "user"})

\* App hands a new batch to the map component: setActions(batch), the
\* `actions` prop changes and the effect on [actions] is scheduled
Deliver(batch) ==
  /\ ~crashed
  /\ Quiescent
  /\ Len(batch) > 0
  /\ actions' = batch
  /\ actionsEffect' = TRUE
  /\ prevPins' = pins
  /\ folded' = Reconcile(folded, batch, TRUE).pins
  /\ UNCHANGED mapVars
  /\ UNCHANGED normVars
  /\ UNCHANGED chatVars
  /\ UNCHANGED <<searchVars, viewVars, styleVars, geoVars>>

\* onChange of the chat input (disabled while loading): setDraft(value)
SetDraft(text) ==
  /\ ~crashed
  /\ Quiescent
  /\ ~chatLoading
  /\ text # draft
  /\ draft' = text
  /\ chatLast' = ChatStep("type")
  /\ UNCHANGED <<chatLoading, messages, conversationId, chatError, chatInflight,
                 historyEntries>>
  /\ UNCHANGED <<foldVars, mapVars, normVars, searchVars, viewVars, styleVars,
                 geoVars>>

\* ChatPanel handleSubmit up to the await of fetch, with onHistoryRequest
ChatSubmit ==
  /\ ~crashed
  /\ Quiescent
  /\ IF SubmitAccepted(draft, chatLoading)
     THEN /\ Rounds < MaxRounds
          /\ messages' = Append(messages, UserMessage(Trim(draft)))
          /\ historyEntries' =
               appendHistoryEntries(<<RequestEntry(Trim(draft))>>, historyEntries)
          /\ draft' = <<>>
          /\ chatLoading' = TRUE
          /\ chatError' = Null
          /\ chatInflight' =
               Append(chatInflight,
                      ChatRequest(Trim(draft), mapState, conversationId))
          /\ chatLast' = ChatStep("submit")
          /\ UNCHANGED conversationId
     ELSE /\ chatLast' = ChatStep("ignored")
          /\ UNCHANGED <<chatLoading, draft, messages, conversationId, chatError,
                         chatInflight, historyEntries>>
  /\ UNCHANGED <<foldVars, mapVars, normVars, searchVars, viewVars, styleVars,
                 geoVars>>

\* ChatPanel handleSubmit after the await, response.ok and the body `reply`:
\* the assistant message, the conversation id, then for a batch that is not
\* empty onActions and onHistoryActions; a TypeError out of
\* formatActionDetail lands in the catch block; finally
ChatResponseOk(reply) ==
  /\ ~crashed
  /\ Quiescent
  /\ chatInflight # <<>>
  /\ chatInflight' = Tail(chatInflight)
  /\ conversationId' = reply.conversation_id
  /\ chatLoading' = FALSE
  /\ chatLast' = ChatStep("ok")
  /\ LET answered == Append(messages, AssistantMessage(reply.assistant_text))
     IN IF Len(reply.actions) > 0
        THEN /\ actions' = reply.actions
             /\ actionsEffect' = TRUE
             /\ prevPins' = pins
             /\ folded' = Reconcile(folded, reply.actions, TRUE).pins
             /\ IF \E i \in 1..Len(reply.actions) : FormatThrows(reply.actions[i])
                THEN /\ chatError' = TypeErrorMessage
                     /\ messages' = Append(answered, ErrorMessage(TypeErrorMessage))
                     /\ UNCHANGED historyEntries
                ELSE /\ historyEntries' =
                          appendHistoryEntries(ActionEntries(reply.actions),
                                               historyEntries)
                     /\ messages' = answered
                     /\ UNCHANGED chatError
        ELSE /\ messages' = answered
             /\ UNCHANGED <<actions, actionsEffect, prevPins, folded, chatError,
                            historyEntries>>
  /\ UNCHANGED draft
  /\ UNCHANGED <<mapVars, normVars, searchVars, viewVars, styleVars, geoVars>>

\* variant: a failed request is sent again
ChatResponseFailResends(failure) ==
  /\ ~crashed
  /\ Quiescent
  /\ chatInflight # <<>>
  /\ chatError' = ChatFailureMessage(failure)
  /\ messages' = Append(messages, ErrorMessage(ChatFailureMessage(failure)))
  /\ chatLast' = ChatStep("fail")
  /\ UNCHANGED <<chatLoading, chatInflight>>
  /\ UNCHANGED <<draft, conversationId, historyEntries>>
  /\ UNCHANGED <<foldVars, mapVars, normVars, searchVars, viewVars, styleVars,
                 geoVars>>

\* ChatPanel handleSubmit when the try block fails before the body is read
\* (response not ok, fetch rejected): catch, finally
ChatResponseFail(failure) ==
  /\ ~crashed
  /\ Quiescent
  /\ chatInflight # <<>>
  /\ chatInflight' = Tail(chatInflight)
  /\ chatError' = ChatFailureMessage(failure)
  /\ messages' = Append(messages, ErrorMessage(ChatFailureMessage(failure)))
  /\ chatLoading' = FALSE
  /\ chatLast' = ChatStep("fail")
  /\ UNCHANGED <<draft, conversationId, historyEntries>>
  /\ UNCHANGED <<foldVars, mapVars, normVars, searchVars, viewVars, styleVars,
                 geoVars>>

\* HistoryPanel onClear: setHistoryEntries([])
HistoryClear ==
  /\ ~crashed
  /\ Quiescent
  /\ historyEntries' = <<>>
  /\ chatLast' = ChatStep("clear")
  /\ UNCHANGED <<chatLoading, draft, messages, conversationId, chatError,
                 chatInflight>>
  /\ UNCHANGED <<foldVars, mapVars, normVars, searchVars, viewVars, styleVars,
                 geoVars>>

\* what setPins commits for a fold that did not raise
CommittedPins(acc) == acc.pins

\* variant: the effect resets the collection when it is handed no action
EffectOutcomeResetsOnEmpty(prev, batch, hasView) ==
  IF Len(batch) = 0
  THEN [ok |-> TRUE, pins |-> <<>>, cmds |-> <<>>, set |-> TRUE]
  ELSE LET acc == Reconcile(prev, batch, hasView)
       IN [ok |-> acc.ok, pins |-> acc.pins, cmds |-> acc.cmds, set |-> TRUE]

\* what one run of the effect on [actions] does: `set` tells whether setPins
\* was called at all (if (!actions || actions.length === 0) return;)
EffectOutcome(prev, batch, hasView) ==
  IF Len(batch) = 0
  THEN [ok |-> TRUE, pins |-> prev, cmds |-> <<>>, set |-> FALSE]
  ELSE LET acc == Reconcile(prev, batch, hasView)
       IN [ok |-> acc.ok, pins |-> acc.pins, cmds |-> acc.cmds, set |-> TRUE]

\* useEffect on [actions]: setPins((prevPins) => fold of the batch)
ActionsEffect ==
  /\ ~crashed
  /\ actionsEffect
  /\ actionsEffect' = FALSE
  /\ LET acc == EffectOutcome(pins, actions, mapRef)
     IN IF ~acc.set
        THEN UNCHANGED <<pins, pinsEffect, animations, mapRef, crashed>>
        ELSE /\ animations' = acc.cmds
             /\ IF acc.ok
                THEN /\ pins' = CommittedPins(acc)
                     /\ pinsEffect' = TRUE
                     /\ UNCHANGED <<mapRef, crashed>>
                ELSE /\ crashed' = TRUE
                     /\ mapRef' = FALSE
                     /\ UNCHANGED <<pins, pinsEffect>>
  /\ UNCHANGED <<features, actions, prevPins, folded>>
  /\ UNCHANGED chatVars
  /\ UNCHANGED normVars
  /\ UNCHANGED <<searchVars, viewVars, styleVars, geoVars>>

\* useEffect on [pins]: rebuild the marker features from the committed pins
PinsEffect ==
  /\ ~crashed
  /\ ~actionsEffect
  /\ pinsEffect
  /\ pinsEffect' = FALSE
  /\ features' = RebuildFeatures(pins)
  /\ UNCHANGED <<pins, animations, mapRef, crashed>>
  /\ UNCHANGED <<actions, actionsEffect, prevPins, folded>>
  /\ UNCHANGED chatVars
  /\ UNCHANGED normVars
  /\ UNCHANGED <<searchVars, viewVars, styleVars, geoVars>>

Next ==
  \/ \E batch \in Batches : Deliver(batch)
  \/ ActionsEffect
  \/ PinsEffect

Spec == Init /\ [][Next]_vars

(***************************************************************************)
(* The locate-me button (handleGeolocate and the two callbacks handed to   *)
(* getCurrentPosition) next to the chat panel and the search box: the      *)
(* behaviours in which requests of the three kinds fail.                   *)
(***************************************************************************)
\* handleGeolocate: a click on the locate-me button
Geolocate ==
  /\ ~crashed
  /\ Quiescent
  /\ IF ~mapRef
     THEN /\ geoLast' = [step |-> "no map"]
          /\ UNCHANGED <<isLocating, locationError, lookups>>
     ELSE IF ~geolocation
          THEN /\ locationError' = UnsupportedMessage
               /\ geoLast' = [step |-> "unsupported"]
               /\ UNCHANGED <<isLocating, lookups>>
          ELSE /\ lookups < MaxInflight
               /\ isLocating' = TRUE
               /\ locationError' = Null
               /\ lookups' = lookups + 1
               /\ geoLast' = [step |-> "lookup"]
  /\ UNCHANGED geolocation
  /\ UNCHANGED <<chatVars, foldVars, mapVars, normVars, searchVars, viewVars,
                 styleVars>>

\* the success callback: view.animate({center, zoom: 13}), setIsLocating(false)
GeolocateSuccess(position) ==
  /\ ~crashed
  /\ Quiescent
  /\ lookups > 0
  /\ lookups' = lookups - 1
  /\ animations' = <<AnimateTo(position[1], position[2], 13)>>
  /\ isLocating' = FALSE
  /\ geoLast' = [step |-> "located"]
  /\ UNCHANGED <<locationError, geolocation>>
  /\ UNCHANGED <<pins, pinsEffect, features, mapRef, crashed>>
  /\ UNCHANGED <<chatVars, foldVars, normVars, searchVars, viewVars, styleVars>>

\* variant: a lookup that fails sends the view back to the start
GeolocateErrorRecenters ==
  /\ ~crashed
  /\ Quiescent
  /\ lookups > 0
  /\ lookups' = lookups - 1
  /\ animations' = <<AnimateTo(0, 0, 2)>>
  /\ isLocating' = FALSE
  /\ locationError' = UnableMessage
  /\ geoLast' = [step |-> "failed"]
  /\ UNCHANGED geolocation
  /\ UNCHANGED <<pins, pinsEffect, features, mapRef, crashed>>
  /\ UNCHANGED <<chatVars, foldVars, normVars, searchVars, viewVars, styleVars>>

\* the error callback: setIsLocating(false), setLocationError(...)
GeolocateError ==
  /\ ~crashed
  /\ Quiescent
  /\ lookups > 0
  /\ lookups' = lookups - 1
  /\ isLocating' = FALSE
  /\ locationError' = UnableMessage
  /\ geoLast' = [step |-> "failed"]
  /\ UNCHANGED geolocation
  /\ UNCHANGED <<chatVars, foldVars, mapVars, normVars, searchVars, viewVars,
                 styleVars>>

(***************************************************************************)
(* The chat panel with the history log and the map component it feeds:     *)
(* the log starts from what the mount effect of App reads from storage.    *)
(***************************************************************************)
InitChat ==
  /\ chatLoading = FALSE
  /\ actions = <<>>
  /\ actionsEffect = FALSE
  /\ pins = <<>>
  /\ pinsEffect = FALSE
  /\ features = <<>>
  /\ animations = <<>>
  /\ mapRef = TRUE
  /\ crashed = FALSE
  /\ prevPins = <<>>
  /\ folded = <<>>
  /\ normArg = Undef
  /\ normRet = Undef
  /\ SearchIdle
  /\ ViewIdle
  /\ StyleIdle
  /\ GeoIdle
  /\ draft = <<>>
  /\ messages = <<WelcomeMessage>>
  /\ conversationId = Null
  /\ chatError = Null
  /\ chatInflight = <<>>
  /\ chatLast = [step |-> "none"]
  /\ historyEntries \in StoredHistories

NextChat ==
  \/ \E text \in Drafts : SetDraft(text)
  \/ ChatSubmit
  \/ \E reply \in Replies : ChatResponseOk(reply)
  \/ \E failure \in Failures : ChatResponseFail(failure)
  \/ HistoryClear
  \/ ActionsEffect
  \/ PinsEffect

SpecChat == InitChat /\ [][NextChat]_vars

(***************************************************************************)
(* The fold on its own: a batch has just been delivered to a map component *)
(* holding any pin collection, and the two effects run.                    *)
(***************************************************************************)
InitFold ==
  /\ chatLoading = FALSE
  /\ actions \in FoldBatches
  /\ actionsEffect = TRUE
  /\ pins \in PinLists
  /\ pinsEffect = FALSE
  /\ features = RebuildFeatures(pins)
  /\ animations = <<>>
  /\ mapRef = TRUE
  /\ crashed = FALSE
  /\ prevPins = pins
  /\ folded = Reconcile(pins, actions, TRUE).pins
  /\ normArg = Undef
  /\ normRet = Undef
  /\ SearchIdle
  /\ ViewIdle
  /\ StyleIdle
  /\ ChatIdle
  /\ GeoIdle

NextFold ==
  \/ ActionsEffect
  \/ PinsEffect

SpecFold == InitFold /\ [][NextFold]_vars

(***************************************************************************)
(* normalizePin on its own: one call on any value.  normRet is Undef until *)
(* the call has returned (normalizePin returns null or a record).          *)
(***************************************************************************)
NormValues ==
  { Obj([NoProps EXCEPT !.id = id, !.title = title, !.notes = notes,
                        !.lat = lat, !.lon = lon]) :
      id \in {Str("a"), Str(""), Num(1), Undef, Null},
      title \in {Str("t"), Num(7), Undef},
      notes \in {Str("n"), Num(3), Null, Undef},
      lat \in {Num(1), Num(0), Str("1"), Undef},
      lon \in {Num(2), Str("2"), Null} }
  \cup {Null, Undef, Num(0), Num(5), Str(""), Str("a"), Bool(TRUE), Bool(FALSE),
        Arr(<<>>), Arr(<<PinPayload(Str("a"), Str("t"), Undef)>>)}

InitNormalize ==
  /\ chatLoading = FALSE
  /\ actions = <<>>
  /\ actionsEffect = FALSE
  /\ pins = <<>>
  /\ pinsEffect = FALSE
  /\ features = <<>>
  /\ animations = <<>>
  /\ mapRef = TRUE
  /\ crashed = FALSE
  /\ prevPins = <<>>
  /\ folded = <<>>
  /\ normArg \in NormValues
  /\ normRet = Undef
  /\ SearchIdle
  /\ ViewIdle
  /\ StyleIdle
  /\ ChatIdle
  /\ GeoIdle

NormalizeCall ==
  /\ normRet = Undef
  /\ normRet' = normalizePin(normArg)
  /\ UNCHANGED <<normArg, actions, actionsEffect, prevPins, folded>>
  /\ UNCHANGED chatVars
  /\ UNCHANGED mapVars
  /\ UNCHANGED <<searchVars, viewVars, styleVars, geoVars>>

NextNormalize == NormalizeCall

SpecNormalize == InitNormalize /\ [][NextNormalize]_vars

(***************************************************************************)
(* The search box on its own: the user types, submits, picks a result, and *)
(* the geocoding requests in flight are answered in any order.             *)
(***************************************************************************)
InitSearch ==
  /\ chatLoading = FALSE
  /\ actions = <<>>
  /\ actionsEffect = FALSE
  /\ pins = <<>>
  /\ pinsEffect = FALSE
  /\ features = <<>>
  /\ animations = <<>>
  /\ mapRef = TRUE
  /\ crashed = FALSE
  /\ prevPins = <<>>
  /\ folded = <<>>
  /\ normArg = Undef
  /\ normRet = Undef
  /\ SearchIdle
  /\ ViewIdle
  /\ StyleIdle
  /\ ChatIdle
  /\ GeoIdle

\* onChange of the search input: setQuery(event.target.value)
SetQuery(text) ==
  /\ ~crashed
  /\ text # query
  /\ query' = text
  /\ searchLast' = [step |-> "type"]
  /\ UNCHANGED <<results, isLoading, errorMessage, inflight, overtaken>>
  /\ UNCHANGED <<chatVars, foldVars, mapVars, normVars, viewVars, styleVars, geoVars>>

\* handleSubmit: performSearch(query) up to the await of fetch
SearchSubmit ==
  /\ ~crashed
  /\ searchLast' = [step |-> "search", text |-> query]
  /\ IF IsBlank(query)
     THEN /\ results' = <<>>
          /\ errorMessage' = EnterLocationMessage
          /\ UNCHANGED <<isLoading, inflight, overtaken>>
     ELSE /\ Len(inflight) < MaxInflight
          /\ isLoading' = TRUE
          /\ errorMessage' = Null
          /\ inflight' = Append(inflight, RequestFor(query))
          /\ overtaken' = Append(overtaken, FALSE)
          /\ UNCHANGED results
  /\ UNCHANGED query
  /\ UNCHANGED <<chatVars, foldVars, mapVars, normVars, viewVars, styleVars, geoVars>>

\* the requests in flight without the i-th
Answered(i) == SubSeq(inflight, 1, i - 1) \o SubSeq(inflight, i + 1, Len(inflight))

\* history: once the i-th request is answered, every request issued before it
\* and still in flight has been overtaken by the answer to a later one
Overtaken(i) ==
  [j \in 1..(Len(overtaken) - 1) |-> IF j < i THEN TRUE ELSE overtaken[j + 1]]

\* variant: the answer to a request overtaken by a later one is dropped
SearchResponseOkGuarded(i, data) ==
  /\ ~crashed
  /\ i \in 1..Len(inflight)
  /\ inflight' = Answered(i)
  /\ overtaken' = Overtaken(i)
  /\ IF overtaken[i]
     THEN UNCHANGED <<results, errorMessage>>
     ELSE /\ results' = ParsedResponse[data]
          /\ errorMessage' = MessageAfterOk(ParsedResponse[data], errorMessage)
  /\ isLoading' = FALSE
  /\ searchLast' = [step |-> "ok", data |-> data, stale |-> overtaken[i]]
  /\ UNCHANGED query
  /\ UNCHANGED <<chatVars, foldVars, mapVars, normVars, viewVars, styleVars, geoVars>>

\* performSearch after the await, response.ok and a body that parses
SearchResponseOk(i, data) ==
  /\ ~crashed
  /\ i \in 1..Len(inflight)
  /\ inflight' = Answered(i)
  /\ overtaken' = Overtaken(i)
  /\ results' = ParsedResponse[data]
  /\ errorMessage' = MessageAfterOk(ParsedResponse[data], errorMessage)
  /\ isLoading' = FALSE
  /\ searchLast' = [step |-> "ok", data |-> data, stale |-> overtaken[i]]
  /\ UNCHANGED query
  /\ UNCHANGED <<chatVars, foldVars, mapVars, normVars, viewVars, styleVars, geoVars>>

\* performSearch after the await when the try block fails: catch, finally
SearchResponseFail(i, failure) ==
  /\ ~crashed
  /\ i \in 1..Len(inflight)
  /\ inflight' = Answered(i)
  /\ overtaken' = Overtaken(i)
  /\ errorMessage' = FailureMessage(failure)
  /\ isLoading' = FALSE
  /\ searchLast' = [step |-> "fail", failure |-> failure, stale |-> overtaken[i]]
  /\ UNCHANGED <<query, results>>
  /\ UNCHANGED <<chatVars, foldVars, mapVars, normVars, viewVars, styleVars, geoVars>>

\* handleResultSelect(results[i]): a click on the i-th entry of the list
SelectResult(i) ==
  /\ ~crashed
  /\ i \in 1..Len(results)
  /\ searchLast' = [step |-> "select", result |-> results[i]]
  /\ IF mapRef
     THEN /\ animations' = SelectCommands(results[i])
          /\ query' = results[i].label
          /\ results' = <<>>
     ELSE UNCHANGED <<animations, query, results>>
  /\ UNCHANGED <<isLoading, errorMessage, inflight, overtaken>>
  /\ UNCHANGED <<pins, pinsEffect, features, mapRef, crashed>>
  /\ UNCHANGED <<chatVars, foldVars, normVars, viewVars, styleVars, geoVars>>

NextSearch ==
  \/ \E text \in Texts : SetQuery(text)
  \/ SearchSubmit
  \/ \E i \in 1..MaxInflight, data \in Responses : SearchResponseOk(i, data)
  \/ \E i \in 1..MaxInflight, failure \in Failures : SearchResponseFail(i, failure)
  \/ \E i \in 1..MaxEntries : SelectResult(i)

SpecSearch == InitSearch /\ [][NextSearch]_vars

(***************************************************************************)
(* Requests of the three kinds that fail, side by side.                    *)
(***************************************************************************)
\* the state after construction, in a browser with or without geolocation
InitFailure ==
  /\ chatLoading = FALSE
  /\ actions = <<>>
  /\ actionsEffect = FALSE
  /\ pins = <<>>
  /\ pinsEffect = FALSE
  /\ features = <<>>
  /\ animations = <<>>
  /\ mapRef = TRUE
  /\ crashed = FALSE
  /\ prevPins = <<>>
  /\ folded = <<>>
  /\ normArg = Undef
  /\ normRet = Undef
  /\ SearchIdle
  /\ ViewIdle
  /\ StyleIdle
  /\ ChatIdle
  /\ isLocating = FALSE
  /\ locationError = Null
  /\ geolocation \in BOOLEAN
  /\ lookups = 0
  /\ geoLast = [step |-> "none"]

\* the one reply that succeeds: a pin and a place to look at
PinAndPlace ==
  [assistant_text |-> <<"r">>,
   actions |-> <<Action("create_pin", PinPayload(Str("a"), Str("t"), Undef)),
                 Action("geocode",
                        Obj([NoProps EXCEPT !.lat = Num(1), !.lon = Num(2)]))>>,
   conversation_id |-> Str("c")]

NextFailure ==
  \/ SetDraft(<<" ", "p">>)
  \/ ChatSubmit
  \/ ChatResponseOk(PinAndPlace)
  \/ \E failure \in Failures : ChatResponseFail(failure)
  \/ ActionsEffect
  \/ PinsEffect
  \/ SetQuery(<<"p">>)
  \/ SearchSubmit
  \/ \E i \in 1..MaxInflight, failure \in Failures : SearchResponseFail(i, failure)
  \/ Geolocate
  \/ \E position \in Positions : GeolocateSuccess(position)
  \/ GeolocateError

SpecFailure == InitFailure /\ [][NextFailure]_vars

(***************************************************************************)
(* Properties of the delivery pipeline (Spec).                             *)
(***************************************************************************)
\* the effect on [actions] has run for the batch held in `actions`
FoldDone == actions # <<>> /\ ~actionsEffect

\* a result that is null, absent or no object
NoObjectResult(action) == action.result.k \notin {"object", "array"}

WithoutMalformed(batch) ==
  LET WellFormed(action) == ~NoObjectResult(action)
  IN SelectSeq(batch, WellFormed)

\* C1: after any batch, no two pins of the collection share an id.
C1_NoDuplicateIds ==
  \A i, j \in 1..Len(pins) : i # j => pins[i].id # pins[j].id

\* C2: a batch holding an action with a malformed result is folded without an
\* error, the malformed action changes nothing and the other actions are
\* applied in batch order.
C2_MalformedActionSkipped ==
  FoldDone =>
    /\ ~crashed
    /\ pins = Reconcile(prevPins, WithoutMalformed(actions), TRUE).pins

\* C3: once the effects have run, the collection is the fold of every batch
\* delivered so far, each applied once and none lost.
C3_PinsAreFoldOfDelivered ==
  ~actionsEffect => (~crashed /\ pins = folded)

\* the fold of a whole batch, action by action
RECURSIVE C4_WholeBatch(_, _, _)
C4_WholeBatch(acc, batch, i) ==
  IF i > Len(batch)
  THEN acc
  ELSE IF ~acc.ok
       THEN acc
       ELSE C4_WholeBatch(ApplyAction(acc, batch[i], TRUE), batch, i + 1)

\* C4: a batch is applied atomically: `pins` is either the collection the batch
\* was delivered to or the result of the whole batch, and the features of the
\* rendering layer are built from one of these two.
C4_BatchIsAtomic ==
  LET whole == C4_WholeBatch([ok |-> TRUE, pins |-> prevPins, cmds |-> <<>>], actions, 1)
  IN /\ pins = prevPins \/ (whole.ok /\ pins = whole.pins)
     /\ features \in {RebuildFeatures(prevPins), RebuildFeatures(pins)}
     /\ Quiescent /\ ~crashed => features = RebuildFeatures(pins)

\* a two-action batch whose first action alone gives a third collection has
\* been folded and rendered
C4_Witness ==
  /\ Quiescent
  /\ ~crashed
  /\ Len(actions) = 2
  /\ features = RebuildFeatures(pins)
  /\ pins # prevPins
  /\ LET first == Reconcile(prevPins, SubSeq(actions, 1, 1), TRUE).pins
     IN first # pins /\ first # prevPins

(***************************************************************************)
(* Properties of the fold of one batch (SpecFold).                         *)
(***************************************************************************)
\* an object whose id and title are strings and whose lat and lon are numbers
PinShaped(v) ==
  /\ v.k = "object"
  /\ v.o.id.k = "string"
  /\ v.o.title.k = "string"
  /\ v.o.lat.k = "number"
  /\ v.o.lon.k = "number"

\* the pin a pin-shaped payload stands for
PinOf(v) ==
  [id |-> v.o.id.s, title |-> v.o.title.s,
   notes |-> IF v.o.notes.k = "string" THEN v.o.notes ELSE Null,
   lat |-> v.o.lat.n, lon |-> v.o.lon.n]

ValidCreate(action) == action.type = "create_pin" /\ PinShaped(action.result)

ClearsAll(action) ==
  /\ action.type = "remove_pins"
  /\ action.result.k = "object"
  /\ action.result.o.removed_all = Bool(TRUE)

\* the pins of a collection whose id is not in ids, in their order
RECURSIVE PinsOutside(_, _)
PinsOutside(pinList, ids) ==
  IF pinList = <<>>
  THEN <<>>
  ELSE IF Head(pinList).id \in ids
       THEN PinsOutside(Tail(pinList), ids)
       ELSE <<Head(pinList)>> \o PinsOutside(Tail(pinList), ids)

\* C5: a valid create_pin X right after a clearing action, at the end of a
\* batch, leaves exactly [X], whatever the collection held before; and a valid
\* create_pin X at the end of any batch leaves X at the front.
C5_ClearThenCreate ==
  (FoldDone /\ ~crashed /\ ValidCreate(actions[Len(actions)])) =>
    LET n == Len(actions)
    IN /\ Len(pins) >= 1
       /\ pins[1] = PinOf(actions[n].result)
       /\ (n >= 2 /\ ClearsAll(actions[n - 1])) => pins = <<PinOf(actions[n].result)>>

\* [remove_pins{removed_all: true}, create_pin X] has been folded over a
\* collection that held two pins
C5_Witness ==
  /\ FoldDone
  /\ ~crashed
  /\ Len(actions) = 2
  /\ ClearsAll(actions[1])
  /\ ValidCreate(actions[2])
  /\ Len(prevPins) = 2
  /\ pins = <<PinOf(actions[2].result)>>

\* C6: a valid create_pin drops every pin of the same id, puts the new pin at
\* index 0 and keeps the other pins in their order; two creates of different
\* ids in a row leave the later one first and the earlier one second.
C6_CreatePrepends ==
  (FoldDone /\ ~crashed) =>
    LET n == Len(actions)
    IN /\ (n = 1 /\ ValidCreate(actions[1])) =>
            pins = <<PinOf(actions[1].result)>>
                   \o PinsOutside(prevPins, {PinOf(actions[1].result).id})
       /\ (n >= 2 /\ ValidCreate(actions[n - 1]) /\ ValidCreate(actions[n])
             /\ PinOf(actions[n - 1].result).id # PinOf(actions[n].result).id) =>
            /\ Len(pins) >= 2
            /\ pins[1] = PinOf(actions[n].result)
            /\ pins[2] = PinOf(actions[n - 1].result)

\* a pin whose id the collection held twice, behind another pin, has been
\* created again with other fields
C6_Witness ==
  /\ FoldDone
  /\ ~crashed
  /\ Len(actions) = 1
  /\ ValidCreate(actions[1])
  /\ Len(prevPins) = 2
  /\ prevPins[1].id # prevPins[2].id
  /\ prevPins[2].id = PinOf(actions[1].result).id
  /\ prevPins[2] # PinOf(actions[1].result)
  /\ pins = <<PinOf(actions[1].result), prevPins[1]>>

\* the pins of the pin-shaped elements of an array, in their order
RECURSIVE ValidPinsOf(_)
ValidPinsOf(items) ==
  IF items = <<>>
  THEN <<>>
  ELSE IF PinShaped(Head(items))
       THEN <<PinOf(Head(items))>> \o ValidPinsOf(Tail(items))
       ELSE ValidPinsOf(Tail(items))

\* C7: a list_pins action whose result is an array puts the pins of its valid
\* elements, in their order, in the place of the whole collection.
C7_ListReplaces ==
  (FoldDone /\ ~crashed /\ Len(actions) = 1 /\ actions[1].type = "list_pins"
     /\ actions[1].result.k = "array") =>
    pins = ValidPinsOf(actions[1].result.a)

\* an array with a valid and an invalid element has replaced a collection that
\* held a pin the array does not list
C7_Witness ==
  /\ FoldDone
  /\ ~crashed
  /\ Len(actions) = 1
  /\ actions[1].type = "list_pins"
  /\ actions[1].result.k = "array"
  /\ Len(actions[1].result.a) = 2
  /\ Len(pins) = 1
  /\ \E i \in 1..Len(prevPins) : prevPins[i].id # pins[1].id

\* id is a string member of result.ids
IsListedId(result, id) ==
  /\ result.k = "object"
  /\ result.o.ids.k = "array"
  /\ \E i \in 1..Len(result.o.ids.a) : result.o.ids.a[i] = Str(id)

\* result.ids is absent, no array, empty or without strings
NoListedId(result) ==
  \/ result.k # "object"
  \/ result.o.ids.k # "array"
  \/ \A i \in 1..Len(result.o.ids.a) : result.o.ids.a[i].k # "string"

C12_EmptyBatch ==
  (actions = <<>> /\ ~actionsEffect) => (~crashed /\ pins = prevPins)

\* the effect has run with an empty batch over a collection of two pins
C12_Witness ==
  /\ actions = <<>>
  /\ ~actionsEffect
  /\ ~pinsEffect
  /\ Len(prevPins) = 2
  /\ pins = prevPins

\* a geocode action whose result can be read, or an action of a type the
\* callback does not know
Neutral(action) ==
  \/ action.type = "geocode" /\ action.result.k \notin {"null", "undefined"}
  \/ action.type \notin {"geocode", "list_pins", "create_pin", "remove_pin",
                         "remove_pins"}

WithoutNeutral(batch) ==
  LET Effective(action) == ~Neutral(action)
  IN SelectSeq(batch, Effective)

C10_InvalidCreateIsNoOp ==
  (FoldDone /\ Len(actions) = 1 /\ actions[1].type = "create_pin"
     /\ ~PinShaped(actions[1].result)) =>
    (~crashed /\ pins = prevPins)

\* a payload without lat, whose id a pin of the collection has, has been folded
C10_Witness ==
  /\ FoldDone
  /\ ~crashed
  /\ Len(actions) = 1
  /\ actions[1].type = "create_pin"
  /\ actions[1].result.k = "object"
  /\ actions[1].result.o.lat = Undef
  /\ actions[1].result.o.id = Str("a")
  /\ Len(prevPins) = 2
  /\ prevPins[2].id = "a"
  /\ pins = prevPins

(***************************************************************************)
(* Properties of normalizePin (SpecNormalize).                             *)
(***************************************************************************)
\* C9: normalizePin returns null or a record of exactly id, title, notes, lat
\* and lon; it returns a record exactly for an object whose id and title are
\* strings and whose lat and lon are numbers, with the input's fields and with
\* notes the input's notes when that is a string and null otherwise.
C9_NormalizePin ==
  normRet # Undef =>
    /\ normRet # Null <=> PinShaped(normArg)
    /\ normRet # Null =>
         /\ DOMAIN normRet = {"id", "title", "notes", "lat", "lon"}
         /\ normRet.id = normArg.o.id.s
         /\ normRet.title = normArg.o.title.s
         /\ normRet.lat = normArg.o.lat.n
         /\ normRet.lon = normArg.o.lon.n
         /\ normRet.notes = IF normArg.o.notes.k = "string"
                            THEN normArg.o.notes ELSE Null

\* a payload with an empty id, latitude 0 and a number for notes has been
\* accepted, its notes coerced to null
C9_Witness ==
  /\ normRet # Undef
  /\ normRet # Null
  /\ normArg.o.id = Str("")
  /\ normArg.o.lat = Num(0)
  /\ normArg.o.notes = Num(3)
  /\ normRet.notes = Null

(***************************************************************************)
(* The view on its own: gestures and commanded transitions move the camera,*)
(* the map reports each movement's end with a moveend event, and the       *)
(* listener registered at mount pushes the MapState to onMapStateChange.   *)
(***************************************************************************)
Centers == {<<0, 0>>, <<2, 1>>, <<10, 59>>}

Zooms == {2, 12, 13, maxZoom}

\* the commands the handlers give the view: the animation of a geocode
\* action, the animation of the geolocation callback, the fit of a result
ViewCommands ==
  { AnimateTo(2, 1, 12),
    AnimateTo(10, 59, 13),
    FitTo(<<Num(0 - 78), Num(0 - 13), Num(0 - 76), Num(0 - 11)>>) }

\* where a commanded transition ends
TargetCenter(cmd) ==
  IF cmd.cmd = "animate"
  THEN <<cmd.lon, cmd.lat>>
  ELSE <<(cmd.extent[1].n + cmd.extent[3].n) \div 2,
         (cmd.extent[2].n + cmd.extent[4].n) \div 2>>

TargetZooms(cmd) ==
  IF cmd.cmd = "animate" THEN {cmd.zoom} ELSE {z \in Zooms : z <= cmd.maxZoom}

\* variant: the listener is registered for every event of the map
ListensToEveryEvent(type) == TRUE

\* map.on("moveend", pushMapState)
Listens(type) == type = "moveend"

\* pushMapState with the view at (center, zoom); the view of this map always
\* has a centre
pushMapState(center, zoom) ==
  IF listener
  THEN /\ mapState' = MapStateOf(center, zoom, hasSize)
       /\ emitted' = emitted + 1
  ELSE UNCHANGED <<mapState, emitted>>

\* the map dispatches an event to its listeners
MapEvent(type, center, zoom) ==
  IF Listens(type)
  THEN pushMapState(center, zoom)
  ELSE UNCHANGED <<mapState, emitted>>

InitView ==
  /\ chatLoading = FALSE
  /\ actions = <<>>
  /\ actionsEffect = FALSE
  /\ pins = <<>>
  /\ pinsEffect = FALSE
  /\ features = <<>>
  /\ animations = <<>>
  /\ mapRef = TRUE
  /\ crashed = FALSE
  /\ prevPins = <<>>
  /\ folded = <<>>
  /\ normArg = Undef
  /\ normRet = Undef
  /\ SearchIdle
  /\ StyleIdle
  /\ ChatIdle
  /\ GeoIdle
  /\ listener \in BOOLEAN
  /\ hasSize \in BOOLEAN
  /\ viewCenter = <<0, 0>>
  /\ viewZoom = 2
  /\ moving = "none"
  /\ mapState = IF listener THEN MapStateOf(<<0, 0>>, 2, hasSize) ELSE Null
  /\ emitted = IF listener THEN 1 ELSE 0
  /\ settled = 0

\* the user starts to drag or to zoom
UserGesture ==
  /\ settled < MaxMoves
  /\ moving # "user"
  /\ moving' = "user"
  /\ MapEvent("movestart", viewCenter, viewZoom)
  /\ UNCHANGED <<listener, viewCenter, viewZoom, hasSize, settled, animations>>
  /\ UNCHANGED <<pins, pinsEffect, features, mapRef, crashed>>
  /\ UNCHANGED <<chatVars, foldVars, normVars, searchVars, styleVars, geoVars>>

\* a handler gives the view a command, which supersedes the movement in
\* progress
Command(cmd) ==
  /\ settled < MaxMoves
  /\ mapRef
  /\ animations' = <<cmd>>
  /\ moving' = "commanded"
  /\ MapEvent("movestart", viewCenter, viewZoom)
  /\ UNCHANGED <<listener, viewCenter, viewZoom, hasSize, settled>>
  /\ UNCHANGED <<pins, pinsEffect, features, mapRef, crashed>>
  /\ UNCHANGED <<chatVars, foldVars, normVars, searchVars, styleVars, geoVars>>

\* one frame of a movement: the view is somewhere on its way
ViewChange(center, zoom) ==
  /\ moving # "none"
  /\ <<center, zoom>> # <<viewCenter, viewZoom>>
  /\ viewCenter' = center
  /\ viewZoom' = zoom
  /\ MapEvent("postrender", center, zoom)
  /\ UNCHANGED <<listener, hasSize, moving, settled, animations>>
  /\ UNCHANGED <<pins, pinsEffect, features, mapRef, crashed>>
  /\ UNCHANGED <<chatVars, foldVars, normVars, searchVars, styleVars, geoVars>>

\* the movement settles: a gesture where the user left the view, a commanded
\* transition at its target; the map fires moveend
MoveEnd(zoom) ==
  /\ moving # "none"
  /\ settled < MaxMoves
  /\ LET center == IF moving = "commanded"
                   THEN TargetCenter(animations[1])
                   ELSE viewCenter
     IN /\ zoom \in (IF moving = "commanded"
                      THEN TargetZooms(animations[1])
                      ELSE {viewZoom})
        /\ viewCenter' = center
        /\ viewZoom' = zoom
        /\ MapEvent("moveend", center, zoom)
  /\ moving' = "none"
  /\ settled' = settled + 1
  /\ UNCHANGED <<listener, hasSize, animations>>
  /\ UNCHANGED <<pins, pinsEffect, features, mapRef, crashed>>
  /\ UNCHANGED <<chatVars, foldVars, normVars, searchVars, styleVars, geoVars>>

NextView ==
  \/ UserGesture
  \/ \E cmd \in ViewCommands : Command(cmd)
  \/ \E center \in Centers, zoom \in Zooms : ViewChange(center, zoom)
  \/ \E zoom \in Zooms : MoveEnd(zoom)

SpecView == InitView /\ [][NextView]_vars

(***************************************************************************)
(* The style function of the pin layer on its own.  Zooms are in           *)
(* hundredths and scales in units of 1/2000, so that zoom / 20 is exact;   *)
(* the zooms resolved are those whose scale is no tie of toFixed(2).       *)
(***************************************************************************)
StyleZooms == {0, 596, 600, 604, 640, 644, 648, 652, 1200, 1208, 1560, 1800}

\* Math.min(0.78, Math.max(0.32, zoom / 20))
ScaleOf(zoom) ==
  LET atLeast == IF zoom < 640 THEN 640 ELSE zoom
  IN IF atLeast > 1560 THEN 1560 ELSE atLeast

\* variant: the scale is the cache key as it is, with no rounding
CacheKeyUnrounded(scale) == scale

\* Number(scale.toFixed(2)), in hundredths
CacheKeyOf(scale) == (scale + 10) \div 20

InitStyle ==
  /\ chatLoading = FALSE
  /\ actions = <<>>
  /\ actionsEffect = FALSE
  /\ pins = <<>>
  /\ pinsEffect = FALSE
  /\ features = <<>>
  /\ animations = <<>>
  /\ mapRef = TRUE
  /\ crashed = FALSE
  /\ prevPins = <<>>
  /\ folded = <<>>
  /\ normArg = Undef
  /\ normRet = Undef
  /\ SearchIdle
  /\ ViewIdle
  /\ StyleIdle
  /\ ChatIdle
  /\ GeoIdle

\* one call of the style function at a resolution whose zoom is `zoom`
StyleCall(zoom) ==
  /\ styleArg' = Num(zoom)
  /\ IF zoom < minPinZoom * 100
     THEN /\ styleRet' = Undef
          /\ UNCHANGED <<styleCache, stylesBuilt>>
     ELSE LET cacheKey == CacheKeyOf(ScaleOf(zoom))
              cached == {entry \in styleCache : entry.key = cacheKey}
          IN IF cached # {}
             THEN /\ styleRet' = (CHOOSE entry \in cached : TRUE).style
                  /\ UNCHANGED <<styleCache, stylesBuilt>>
             ELSE LET style == [instance |-> stylesBuilt + 1, scale |-> cacheKey]
                  IN /\ styleRet' = style
                     /\ styleCache' = styleCache \cup
                                         {[key |-> cacheKey, style |-> style]}
                     /\ stylesBuilt' = stylesBuilt + 1
  /\ UNCHANGED <<chatVars, foldVars, mapVars, normVars, searchVars, viewVars, geoVars>>

NextStyle == \E zoom \in StyleZooms : StyleCall(zoom)

SpecStyle == InitStyle /\ [][NextStyle]_vars

\* C25: the fold of a batch over the collection this batch has produced
\* gives that collection again.
C25_FoldIdempotent ==
  (FoldDone /\ ~crashed) =>
    LET again == Reconcile(pins, actions, TRUE)
    IN again.ok /\ again.pins = pins

\* two different create_pin actions have turned a collection of two pins
\* into another collection of two pins
C25_Witness ==
  /\ FoldDone
  /\ ~crashed
  /\ Len(actions) = 2
  /\ actions[1].type = "create_pin"
  /\ actions[2].type = "create_pin"
  /\ actions[1] # actions[2]
  /\ Len(prevPins) = 2
  /\ Len(pins) = 2
  /\ pins # prevPins

UniqueIds(pinList) ==
  \A i, j \in 1..Len(pinList) : i # j => pinList[i].id # pinList[j].id

\* C26: a batch without list_pins folded over a collection of unique ids
\* gives a collection of unique ids; and right after a valid create_pin for an
\* id exactly one pin has that id, however many the collection held before.
C26_UniqueWithoutList ==
  (FoldDone /\ ~crashed) =>
    /\ (UniqueIds(prevPins)
          /\ \A i \in 1..Len(actions) : actions[i].type # "list_pins")
         => UniqueIds(pins)
    /\ ValidCreate(actions[Len(actions)]) =>
         Cardinality({i \in 1..Len(pins) :
                        pins[i].id = PinOf(actions[Len(actions)].result).id}) = 1

\* a collection holding an id twice has been given a pin of that id
C26_Witness ==
  /\ FoldDone
  /\ ~crashed
  /\ Len(actions) = 1
  /\ ValidCreate(actions[1])
  /\ Len(prevPins) = 2
  /\ prevPins[1].id = prevPins[2].id
  /\ prevPins[1].id = PinOf(actions[1].result).id
  /\ Len(pins) = 1

\* a geocode action whose lat and lon are numbers
NumericGeocode(action) ==
  /\ action.type = "geocode"
  /\ action.result.k = "object"
  /\ action.result.o.lat.k = "number"
  /\ action.result.o.lon.k = "number"

\* one animation to the point of each such action, in the order of the batch
RECURSIVE C27_Commands(_)
C27_Commands(batch) ==
  IF batch = <<>>
  THEN <<>>
  ELSE (IF NumericGeocode(Head(batch))
        THEN <<[cmd |-> "animate", lon |-> Head(batch).result.o.lon.n,
                lat |-> Head(batch).result.o.lat.n, zoom |-> 12]>>
        ELSE <<>>)
       \o C27_Commands(Tail(batch))

\* C27: the view is given one animation to zoom 12 for each geocode action of
\* the delivered batch whose lat and lon are numbers, in batch order, and no
\* other command.
C27_GeocodeCommands ==
  FoldDone => animations = C27_Commands(actions)

(***************************************************************************)
(* Properties of the search box (SpecSearch).                              *)
(***************************************************************************)
\* C14: after a search with non-empty text has failed (response not ok, or a
\* failure of the transport) an error message is set and the result list is
\* empty, also when an earlier search had filled the list.
C14_FailedSearchEmptiesList ==
  searchLast.step = "fail" => (errorMessage # Null /\ results = <<>>)

\* C15: a search with an empty or blank text issues no request, empties the
\* result list and sets the message "Enter a location to search.", whatever
\* the search box held and whatever requests were in flight.
C15_BlankSearch ==
  [][(searchLast'.step = "search" /\ Trim(searchLast'.text) = <<>>) =>
       /\ inflight' = inflight
       /\ results' = <<>>
       /\ errorMessage' = EnterLocationMessage]_vars

\* a text of blanks has been submitted while a request was in flight
C15_Witness ==
  /\ searchLast.step = "search"
  /\ searchLast.text = <<" ", " ">>
  /\ Len(inflight) = 1
  /\ isLoading
  /\ results = <<>>
  /\ errorMessage = EnterLocationMessage

\* C16 as stated: a successful response with no entry leaves the list empty
\* with the no-results message, which no failure shows; a successful response
\* with entries shows no error message.
C16_Original ==
  searchLast.step = "ok" =>
    IF searchLast.data = <<>>
    THEN /\ results = <<>>
         /\ errorMessage = NoResultsMessage
         /\ \A failure \in Failures : FailureMessage(failure) # NoResultsMessage
    ELSE errorMessage = Null

\* C16 amended: a successful response with no entry leaves the list empty
\* with the no-results message, which no failure shows; a successful response
\* with entries fills the list and leaves the message as it was when the
\* response arrived.
C16_OkResponse ==
  [][searchLast'.step = "ok" =>
       IF searchLast'.data = <<>>
       THEN /\ results' = <<>>
            /\ errorMessage' = NoResultsMessage
            /\ \A failure \in Failures :
                  FailureMessage(failure) # NoResultsMessage
       ELSE /\ Len(results') = Len(searchLast'.data)
            /\ errorMessage' = errorMessage]_vars

\* entries have arrived while the message of a blank search was on display
C16_Witness ==
  /\ searchLast.step = "ok"
  /\ Len(searchLast.data) = 2
  /\ Len(results) = 2
  /\ errorMessage = EnterLocationMessage

\* C17: picking a result with a bounding box gives the view one fit to that
\* box and no animation, picking one without gives it one animation to the
\* result's coordinates at zoom 12; both empty the list and make the label
\* the query.
C17_SelectResult ==
  searchLast.step = "select" =>
    LET result == searchLast.result
    IN /\ results = <<>>
       /\ query = result.label
       /\ Len(animations) = 1
       /\ IF result.boundingBox # Undef
          THEN /\ animations[1].cmd = "fit"
               /\ animations[1].extent = result.boundingBox.a
          ELSE animations[1] =
                 [cmd |-> "animate", lon |-> result.longitude,
                  lat |-> result.latitude, zoom |-> 12]

\* a result with a bounding box has been picked while a request was in flight
C17_Witness ==
  /\ searchLast.step = "select"
  /\ searchLast.result.boundingBox # Undef
  /\ searchLast.result.label = <<"p">>
  /\ animations = <<[cmd |-> "fit",
                     extent |-> <<Num(0 - 78), Num(0 - 13), Num(0 - 76), Num(0 - 11)>>,
                     maxZoom |-> 18]>>
  /\ query = <<"p">>
  /\ results = <<>>
  /\ inflight # <<>>

\* C18: an entry with boundingbox (minLat, maxLat, minLon, maxLon) as strings
\* is parsed to the numbers [minLon, minLat, maxLon, maxLat], an entry
\* without boundingbox to a result without boundingBox, and the results keep
\* the order of the entries.
C18_ParsedBoundingBox ==
  searchLast.step = "ok" =>
    /\ Len(results) = Len(searchLast.data)
    /\ \A i \in 1..Len(results) :
         LET entry == searchLast.data[i]
         IN /\ results[i].label = entry.display_name
            /\ results[i].latitude = Number(entry.lat)
            /\ results[i].longitude = Number(entry.lon)
            /\ IF entry.boundingbox = Undef
               THEN results[i].boundingBox = Undef
               ELSE LET minLat == Number(entry.boundingbox.a[1])
                        maxLat == Number(entry.boundingbox.a[2])
                        minLon == Number(entry.boundingbox.a[3])
                        maxLon == Number(entry.boundingbox.a[4])
                    IN results[i].boundingBox =
                         Arr(<<minLon, minLat, maxLon, maxLat>>)

\* an entry without boundingbox ahead of one with "-13", "-11", "-78", "-76"
C18_Witness ==
  /\ searchLast.step = "ok"
  /\ Len(results) = 2
  /\ results[1].boundingBox = Undef
  /\ results[1].latitude = Num(59)
  /\ results[2].boundingBox =
       Arr(<<Num(0 - 78), Num(0 - 13), Num(0 - 76), Num(0 - 11)>>)
  /\ results[2].longitude = Num(0 - 77)

(***************************************************************************)
(* Properties of the view (SpecView) and of the style function (SpecStyle).*)
(***************************************************************************)
\* C19: with a listener registered, onMapStateChange is called once for
\* each camera movement that has settled, of a gesture or of a command, and
\* is not called while a movement is in progress: the calls are the one made
\* at mount and one for each moveend.
C19_OneEmissionPerMovement ==
  [][listener =>
       IF settled' = settled + 1
       THEN /\ emitted' = emitted + 1
            /\ mapState' = MapStateOf(viewCenter', viewZoom', hasSize')
       ELSE /\ emitted' = emitted
            /\ mapState' = mapState]_vars

\* a gesture and then a command have settled, a third movement is on its way
C19_Witness ==
  /\ listener
  /\ settled = 2
  /\ emitted = 3
  /\ moving = "commanded"
  /\ animations = <<AnimateTo(10, 59, 13)>>
  /\ mapState = MapStateOf(<<2, 1>>, 12, hasSize)
  /\ viewCenter # <<2, 1>>

\* the scale of a zoom of at least minPinZoom: zoom / 20 held within
\* [0.32, 0.78] and rounded to the nearest hundredth
C20_Scale(zoom) ==
  IF zoom <= 640
  THEN 32
  ELSE IF zoom >= 1560
       THEN 78
       ELSE CHOOSE h \in 32..78 : 20 * h - 10 < zoom /\ zoom < 20 * h + 10

\* C20: the style function returns no style below zoom 6; from zoom 6 on it
\* returns a style whose scale is zoom / 20 held within [0.32, 0.78] and
\* rounded to two decimals; calls of equal rounded scale return the same
\* instance, which is constructed once.
C20_StyleResolver ==
  styleArg # Undef =>
    IF styleArg.n < 600
    THEN styleRet = Undef
    ELSE /\ styleRet # Undef
         /\ styleRet.scale = C20_Scale(styleArg.n)
         /\ \E entry \in styleCache : entry.style = styleRet
         /\ \A e1, e2 \in styleCache :
               e1.style.scale = e2.style.scale => e1 = e2
         /\ stylesBuilt = Cardinality(styleCache)

\* zoom 6.48 has been resolved to the instance built for the scale 0.32
\* after another scale had been built
C20_Witness ==
  /\ styleArg = Num(648)
  /\ styleRet.scale = 32
  /\ styleRet.instance = 1
  /\ stylesBuilt = 3
  /\ Cardinality(styleCache) = 3

\* C28: the loading flag of the search box is set exactly when a geocoding
\* request is in flight.
C28_LoadingWhileInFlight ==
  isLoading <=> inflight # <<>>

\* C22 as stated: when the answer to an older request arrives after the
\* answer to a newer one, the list and the message are those of the older
\* request: its entries and no message, or no entry and the no-results
\* message, or the message of its failure.
C22_Original ==
  /\ (searchLast.step = "ok" /\ searchLast.stale) =>
       /\ results = ParsedResponse[searchLast.data]
       /\ errorMessage = IF searchLast.data = <<>> THEN NoResultsMessage ELSE Null
  /\ (searchLast.step = "fail" /\ searchLast.stale) =>
       errorMessage = FailureMessage(searchLast.failure)

\* C22 amended: the answer to an older request that arrives after the answer
\* to a newer one is applied like any other answer: its entries replace the
\* list, with the no-results message when there is none and with the message
\* left as it was otherwise; its failure replaces the message and leaves the
\* list as it was.
C22_StaleResponseApplied ==
  [][(searchLast'.step \in {"ok", "fail"} /\ searchLast'.stale) =>
       IF searchLast'.step = "ok"
       THEN /\ results' = ParsedResponse[searchLast'.data]
            /\ errorMessage' = IF searchLast'.data = <<>>
                               THEN NoResultsMessage
                               ELSE errorMessage
       ELSE /\ errorMessage' = FailureMessage(searchLast'.failure)
            /\ results' = results]_vars

\* the newer request came back empty, then the entries of the older one
\* replaced the empty list under the no-results message
C22_Witness ==
  /\ searchLast.step = "ok"
  /\ searchLast.stale
  /\ Len(results) = 1
  /\ errorMessage = NoResultsMessage
  /\ inflight = <<>>

(***************************************************************************)
(* Properties of the chat panel and of the history log (SpecChat).         *)
(***************************************************************************)
\* a step of the chat panel or of the history panel that is no repetition of
\* a step without effect
ChatStepTaken == chatLast' # chatLast \/ chatInflight' # chatInflight

\* C23: the loading flag of the chat panel is set exactly while a chat
\* request is in flight and at most one is in flight; a submit made while a
\* request is pending or with a draft that is empty or blank sends nothing
\* and changes no state; every response, ok or failed, clears the flag.
C23_OneRequestAtATime ==
  /\ [](/\ chatLoading <=> chatInflight # <<>>
        /\ Len(chatInflight) <= 1)
  /\ [][ChatStepTaken =>
          /\ (/\ chatLast'.step \in {"submit", "ignored"}
              /\ (chatLoading \/ Trim(draft) = <<>>)) =>
                UNCHANGED <<chatLoading, draft, messages, conversationId,
                            chatError, chatInflight, historyEntries, actions,
                            actionsEffect>>
          /\ chatLast'.step \in {"ok", "fail"} => ~chatLoading']_vars

\* a submit has been ignored while a request was pending
C23_Witness ==
  /\ chatLast.step = "ignored"
  /\ chatLoading
  /\ Len(chatInflight) = 1
  /\ Len(messages) = 2

\* C24: a chat request that fails (response not ok, or a failure of the
\* transport) appends exactly one assistant message, the error message,
\* forwards no batch to the map, keeps the conversation id and leaves no
\* request in flight.
C24_FailedChat ==
  [][(ChatStepTaken /\ chatLast'.step = "fail") =>
       /\ Len(messages') = Len(messages) + 1
       /\ SubSeq(messages', 1, Len(messages)) = messages
       /\ messages'[Len(messages')].role = "assistant"
       /\ messages'[Len(messages')] = ErrorMessage(chatError')
       /\ chatError' # Null
       /\ UNCHANGED <<actions, actionsEffect, conversationId>>
       /\ chatInflight' = <<>>]_vars

\* the second request of a conversation has failed
C24_Witness ==
  /\ chatLast.step = "fail"
  /\ conversationId = Str("c")
  /\ Len(messages) = 5
  /\ messages[5] = ErrorMessage(ChatFailedMessage)
  /\ actions # <<>>
  /\ ~chatLoading

\* `next` is `new` put in front of `prev` and cut after HistoryCap entries
C29_Appended(new, prev, next) ==
  /\ Len(next) = IF Len(new) + Len(prev) < HistoryCap
                 THEN Len(new) + Len(prev) ELSE HistoryCap
  /\ \A i \in 1..Len(next) :
        next[i] = IF i <= Len(new) THEN new[i] ELSE prev[i - Len(new)]

\* C29: the history log never holds more than 100 entries; the entry of a
\* request and the entries of an action batch, in batch order, are put in
\* front of the log and what goes over the cap is dropped from the old end;
\* a clear empties the log.
C29_HistoryCapped ==
  /\ [](Len(historyEntries) <= HistoryCap)
  /\ [][ChatStepTaken =>
          /\ chatLast'.step = "submit" =>
                C29_Appended(<<RequestEntry(Trim(draft))>>, historyEntries,
                             historyEntries')
          /\ (/\ chatLast'.step = "ok"
              /\ actionsEffect'
              /\ \A i \in 1..Len(actions') : ~FormatThrows(actions'[i])) =>
                C29_Appended(ActionEntries(actions'), historyEntries,
                             historyEntries')
          /\ chatLast'.step = "clear" => historyEntries' = <<>>]_vars

\* a request and a batch of two actions have been logged over a full log
C29_Witness ==
  /\ chatLast.step = "ok"
  /\ Len(historyEntries) = HistoryCap
  /\ historyEntries[1].kind = "action"
  /\ historyEntries[2].kind = "action"
  /\ historyEntries[3] = RequestEntry(<<"p">>)
  /\ historyEntries[HistoryCap] = RequestEntry(<<ToString(HistoryCap - 3)>>)

(***************************************************************************)
(* Properties of the failing requests (SpecFailure).                       *)
(***************************************************************************)
\* the answer to a geocoding request is a failure
C21_SearchFailed == searchLast'.step = "fail" /\ inflight' # inflight

\* the answer to a chat request is a failure
C21_ChatFailed == chatLast'.step = "fail" /\ chatInflight' # chatInflight

\* a device-location lookup fails, or is asked of a browser without
\* geolocation
C21_LookupFailed ==
  \/ geoLast'.step = "failed" /\ lookups' # lookups
  \/ geoLast'.step = "unsupported" /\ geoLast.step # "unsupported"

\* C21: a failed geocoding search, a failed chat request and a failed or
\* unsupported device-location lookup leave the pins, the markers and the
\* delivered batch as they are and give the view no command; each changes
\* only its own message and its own loading flag.
C21_FailuresLeaveMapAlone ==
  [][/\ (C21_SearchFailed \/ C21_ChatFailed \/ C21_LookupFailed) =>
          UNCHANGED <<foldVars, mapVars, viewVars, normVars, styleVars>>
     /\ C21_SearchFailed => UNCHANGED <<query, results, chatVars, geoVars>>
     /\ C21_ChatFailed =>
          UNCHANGED <<draft, conversationId, historyEntries, searchVars, geoVars>>
     /\ C21_LookupFailed => UNCHANGED <<geolocation, chatVars, searchVars>>]_vars

\* the three kinds of request have failed over a map that holds a pin and
\* was given an animation
C21_Witness ==
  /\ searchLast.step = "fail"
  /\ chatLast.step = "fail"
  /\ geoLast.step = "failed"
  /\ errorMessage = RequestFailedMessage
  /\ chatError = ChatFailedMessage
  /\ locationError = UnableMessage
  /\ Len(pins) = 1
  /\ Len(features) = 1
  /\ animations = <<AnimateTo(2, 1, 12)>>
  /\ ~isLoading /\ ~chatLoading /\ ~isLocating

====
